---- MODULE Spec2Model ----
(***************************************************************************)
(* The KiCad netlist converter of kiutils: the decoders (from_sexpr) and   *)
(* encoders (to_sexpr) of netlist.py and items/netitems.py, together with  *)
(* the list parser and the string escaping they import from kiutils.utils. *)
(*                                                                         *)
(* A text is a sequence of symbols.  The symbols "(", ")", " ", "\n", "\"" *)
(* and "\\" are the single characters of that name; every other symbol     *)
(* stands for a word of ordinary characters ("title", "ACME", "10"), so    *)
(* that a Python str is the sequence of its symbols and the tag literals   *)
(* of the source, which all have two characters or more, are one-word      *)
(* strings that no single character equals.                                *)
(***************************************************************************)
EXTENDS Integers, Sequences, FiniteSets, TLC

(***************************************************************************)
(* Python values: None, a str, a list (the generic nested list the parser  *)
(* returns), and a single character (what s[0] is for a str s).            *)
(***************************************************************************)
None == [k |-> "none"]
Str(s) == [k |-> "a", s |-> s]
List(items) == [k |-> "l", items |-> items]
Char(c) == [k |-> "c", c |-> c]
W(w) == Str(<<w>>)
L1(tag) == List(<<W(tag)>>)
L2(tag, a) == List(<<W(tag), a>>)
L3(tag, a, b) == List(<<W(tag), a, b>>)
L4(tag, a, b, c) == List(<<W(tag), a, b, c>>)
IsStr(v) == v.k = "a"
IsList(v) == v.k = "l"

(* The outcome of a call: a returned value or a raised exception.  The two
   exceptions every from_sexpr raises on entry also record which record
   kind's from_sexpr raised them (the frame of the traceback). *)
Ok(v) == [ok |-> TRUE, val |-> v]
Raise(e) == [ok |-> FALSE, err |-> e]
RaiseBy(e, kind) == [ok |-> FALSE, err |-> e, by |-> kind]

(* Bounds of the model *)
MaxChildren == 2

(***************************************************************************)
(* Left fold of Step over t[lo..hi].  The range is halved at every level   *)
(* so that the evaluation stays shallow on long texts.  The accumulator is *)
(* an outcome; once it is a raised exception the remaining elements are    *)
(* skipped by the Step operators themselves.                               *)
(***************************************************************************)
RECURSIVE FoldRange(_, _, _, _, _)
FoldRange(Step(_, _), acc, t, lo, hi) ==
    IF lo > hi THEN acc
    ELSE IF lo = hi THEN Step(acc, t[lo])
    ELSE LET mid == (lo + hi) \div 2
             left == FoldRange(Step, acc, t, lo, mid)
         IN  IF left.ok \in BOOLEAN
             THEN FoldRange(Step, left, t, mid + 1, hi)
             ELSE left

(* The concatenation of Enc(x) for the elements x of seq[lo..hi], in order *)
RECURSIVE ConcatRange(_, _, _, _)
ConcatRange(Enc(_), seq, lo, hi) ==
    IF lo > hi THEN <<>>
    ELSE IF lo = hi THEN Enc(seq[lo])
    ELSE LET mid == (lo + hi) \div 2
         IN  ConcatRange(Enc, seq, lo, mid) \o ConcatRange(Enc, seq, mid + 1, hi)

ConcatAll(Enc(_), seq) == ConcatRange(Enc, seq, 1, Len(seq))

(***************************************************************************)
(* Python subscripting.  Sub0(v) is v[0]: the first element of a list, the *)
(* first character of a str, IndexError when v is empty.  Sub1(v) is v[1]; *)
(* the source reaches it for lists only (after v[0] matched a tag).        *)
(***************************************************************************)
Sub0(v) ==
    IF IsList(v)
    THEN IF Len(v.items) > 0 THEN Ok(v.items[1]) ELSE Raise("IndexError")
    ELSE IF IsStr(v)
    THEN IF Len(v.s) > 0 THEN Ok(Char(v.s[1])) ELSE Raise("IndexError")
    ELSE Raise("TypeError")

Sub1(v) ==
    IF IsList(v)
    THEN IF Len(v.items) > 1 THEN Ok(v.items[2]) ELSE Raise("IndexError")
    ELSE Raise("TypeError")

(* len(v) > 1 for a list v *)
LenGt1(v) == IsList(v) /\ Len(v.items) > 1

(* The elements of exp[1:] are exp.items[2..Len] *)
ForEach(Step(_, _), object, exp) ==
    FoldRange(LAMBDA acc, item : IF acc.ok THEN Step(acc.val, item) ELSE acc,
              Ok(object), exp.items, 2, Len(exp.items))

(* object.f = item[1] *)
Assign(object, f, item) ==
    LET a == Sub1(item)
    IN  IF a.ok THEN Ok([object EXCEPT ![f] = a.val]) ELSE a

(* best effort: an element whose decoder fails is left out *)
AppendTo_Skip(object, f, r) ==
    IF r.ok THEN Ok([object EXCEPT ![f] = Append(@, r.val)]) ELSE Ok(object)

(* object.f.append(r) for the outcome r of a nested decoder *)
AppendTo(object, f, r) ==
    IF r.ok THEN Ok([object EXCEPT ![f] = Append(@, r.val)]) ELSE r

(* object.f = r for the outcome r of a nested decoder *)
SetTo(object, f, r) ==
    IF r.ok THEN Ok([object EXCEPT ![f] = r.val]) ELSE r

(* the same checks in the other order, and the tag check left out *)
CheckTag_TagFirst(exp, tag) ==
    LET t == Sub0(exp)
    IN  IF ~t.ok THEN t
        ELSE IF t.val # W(tag) THEN RaiseBy("TagMismatchError", tag)
        ELSE IF ~IsList(exp) THEN RaiseBy("StructureError", tag)
        ELSE Ok(TRUE)

CheckTag_NoTag(exp, tag) ==
    IF ~IsList(exp) THEN RaiseBy("StructureError", tag)
    ELSE LET t == Sub0(exp)
         IN  IF ~t.ok THEN t ELSE Ok(TRUE)

(***************************************************************************)
(* The two checks every from_sexpr starts with:                            *)
(*   if not isinstance(exp, list): raise Exception(...)  -- StructureError *)
(*   if exp[0] != tag: raise Exception(... exp[0])       -- TagMismatch    *)
(***************************************************************************)
CheckTag(exp, tag) ==
    IF ~IsList(exp) THEN RaiseBy("StructureError", tag)
    ELSE LET t == Sub0(exp)
         IN  IF ~t.ok THEN t
             ELSE IF t.val # W(tag) THEN RaiseBy("TagMismatchError", tag)
             ELSE Ok(TRUE)

(***************************************************************************)
(* kiutils.utils.strings.dequote: the text of a value with double quotes   *)
(* and backslashes escaped.  A value that is no str is first turned into   *)
(* its text (encoding never fails).                                        *)
(***************************************************************************)
EscapeSym(c) == IF c = "\"" \/ c = "\\" THEN <<"\\", c>> ELSE <<c>>

RECURSIVE PyRepr(_)
PyRepr(v) ==
    IF v.k = "none" THEN <<"None">>
    ELSE IF v.k = "a" THEN <<"'">> \o v.s \o <<"'">>
    ELSE IF v.k = "c" THEN <<"'", v.c, "'">>
    ELSE <<"[">> \o ConcatAll(LAMBDA x : PyRepr(x) \o <<",">>, v.items) \o <<"]">>

PyText(v) == IF v.k = "a" THEN v.s ELSE PyRepr(v)

dequote(v) == ConcatAll(EscapeSym, PyText(v))

(* Python truthiness of a value: `if self.value` *)
Truthy(v) ==
    IF v.k = "none" THEN FALSE
    ELSE IF v.k = "a" THEN v.s # <<>>
    ELSE IF v.k = "l" THEN v.items # <<>>
    ELSE TRUE

(* ' '*indent, "{dequote(v)}" in quotes, and (tag "v") *)
Sp(n) == [i \in 1..n |-> " "]
Q(v) == <<"\"">> \o dequote(v) \o <<"\"">>
Tagged(tag, v) == <<"(", tag, " ">> \o Q(v) \o <<")">>
Endline(newline) == IF newline THEN <<"\n">> ELSE <<>>

(***************************************************************************)
(* NetlistTitleBlock                                                       *)
(***************************************************************************)
NumComments == 9

NetlistTitleBlock ==
    [company |-> None, title |-> None, name |-> None, rev |-> None, date |-> None,
     source |-> Str(<<>>), comments |-> [i \in 1..NumComments |-> None]]

(* int(v): the numerals the model's texts use; any other str is a ValueError *)
Numerals ==
    ("-1" :> -1) @@ ("0" :> 0) @@ ("1" :> 1) @@ ("2" :> 2) @@ ("3" :> 3) @@ ("4" :> 4)
    @@ ("5" :> 5) @@ ("6" :> 6) @@ ("7" :> 7) @@ ("8" :> 8) @@ ("9" :> 9) @@ ("10" :> 10)

int(v) ==
    IF ~IsStr(v) THEN Raise("TypeError")
    ELSE IF Len(v.s) = 1 /\ v.s[1] \in DOMAIN Numerals THEN Ok(Numerals[v.s[1]])
    ELSE Raise("ValueError")

(***************************************************************************)
(* The inner loop over a comment's sub-lists.  Its locals are index and    *)
(* comment; comment is a local of from_sexpr that the loop over the title  *)
(* block's items never resets, so it is carried from one comment to the    *)
(* next (bound says whether it has been assigned yet).                     *)
(***************************************************************************)
CommentSub(loc, sub) ==
    LET t == Sub0(sub)
    IN  IF ~t.ok THEN t
        ELSE LET n == IF t.val = W("number")
                      THEN LET a == Sub1(sub)
                           IN  IF ~a.ok THEN a
                               ELSE LET i == int(a.val)
                                    IN  IF i.ok THEN Ok([loc EXCEPT !.index = i.val - 1]) ELSE i
                      ELSE Ok(loc)
             IN  IF ~n.ok THEN n
                 ELSE IF t.val = W("value")
                 THEN LET a == Sub1(sub)
                      IN  IF a.ok THEN Ok([n.val EXCEPT !.bound = TRUE, !.comment = a.val]) ELSE a
                 ELSE n

(* object.comments[index] = comment, for a Python index (negative ones count from the end) *)
StoreComment(object, index, comment) ==
    IF index >= 0 /\ index < Len(object.comments)
    THEN Ok([object EXCEPT !.comments[index + 1] = comment])
    ELSE IF index < 0 /\ -index <= Len(object.comments)
    THEN Ok([object EXCEPT !.comments[Len(object.comments) + index + 1] = comment])
    ELSE Raise("IndexError")

TitleBlockItem(st, item) ==
    LET t == Sub0(item)
        object == st.object
        Keep(r) == IF r.ok THEN Ok([st EXCEPT !.object = r.val]) ELSE r
    IN  IF ~t.ok THEN t
        ELSE IF t.val = W("title") /\ LenGt1(item) THEN Keep(Assign(object, "title", item))
        ELSE IF t.val = W("company") /\ LenGt1(item) THEN Raise("NameError")
        ELSE IF t.val = W("rev") /\ LenGt1(item) THEN Keep(Assign(object, "rev", item))
        ELSE IF t.val = W("date") /\ LenGt1(item) THEN Keep(Assign(object, "date", item))
        ELSE IF t.val = W("source") THEN Keep(Assign(object, "source", item))
        ELSE IF t.val = W("comment")
        THEN LET loc == ForEach(CommentSub,
                                [index |-> -1, bound |-> st.bound, comment |-> st.comment], item)
             IN  IF ~loc.ok THEN loc
                 ELSE IF loc.val.index = -1 THEN Raise("MissingCommentIndexError")
                 ELSE IF ~loc.val.bound THEN Raise("UnboundLocalError")
                 ELSE LET r == StoreComment(object, loc.val.index, loc.val.comment)
                      IN  IF r.ok
                          THEN Ok([object |-> r.val, bound |-> TRUE, comment |-> loc.val.comment])
                          ELSE r
        ELSE Ok(st)

NetlistTitleBlock_from_sexpr(exp) ==
    LET c == CheckTag(exp, "title_block")
    IN  IF ~c.ok THEN c
        ELSE LET r == ForEach(TitleBlockItem,
                              [object |-> NetlistTitleBlock, bound |-> FALSE, comment |-> None],
                              exp)
             IN  IF r.ok THEN Ok(r.val.object) ELSE r

(* (tag "value") when the value is not None, (tag) otherwise *)
OptionalTag(tag, v) == IF v # None THEN Tagged(tag, v) ELSE <<"(", tag, ")">>

(* the comments numbered from 0, as they are stored *)
CommentLine_ZeroBased(indent, i, comment) ==
    Sp(indent + 2) \o <<"(", "comment", " ">> \o Tagged("number", Str(<<ToString(i - 1)>>))
    \o <<" ">> \o Tagged("value", comment) \o <<")", "\n">>

CommentLine(indent, i, comment) ==
    Sp(indent + 2) \o <<"(", "comment", " ">> \o Tagged("number", Str(<<ToString(i)>>))
    \o <<" ">> \o Tagged("value", comment) \o <<")", "\n">>

NetlistTitleBlock_to_sexpr(self, indent, newline) ==
    Sp(indent) \o <<"(", "title_block", "\n">>
    \o Sp(indent + 2) \o OptionalTag("title", self.title) \o <<"\n">>
    \o Sp(indent + 2) \o OptionalTag("company", self.company) \o <<"\n">>
    \o Sp(indent + 2) \o OptionalTag("rev", self.rev) \o <<"\n">>
    \o Sp(indent + 2) \o OptionalTag("date", self.date) \o <<"\n">>
    \o Sp(indent + 2) \o Tagged("source", self.source) \o <<"\n">>
    \o ConcatAll(LAMBDA i : CommentLine(indent, i, self.comments[i]),
                 [i \in 1..Len(self.comments) |-> i])
    \o Sp(indent) \o <<")">> \o Endline(newline)

(***************************************************************************)
(* NetlistLibsource, NetlistSheetpath, NetlistField, NetlistProperty       *)
(***************************************************************************)
NetlistLibsource == [lib |-> Str(<<>>), part |-> Str(<<>>), description |-> Str(<<>>)]

LibsourceItem(object, item) ==
    LET t == Sub0(item)
    IN  IF ~t.ok THEN t
        ELSE IF t.val = W("lib") THEN Assign(object, "lib", item)
        ELSE IF t.val = W("part") THEN Assign(object, "part", item)
        ELSE IF t.val = W("description") THEN Assign(object, "description", item)
        ELSE Ok(object)

NetlistLibsource_from_sexpr(exp) ==
    LET c == CheckTag(exp, "libsource")
    IN  IF ~c.ok THEN c ELSE ForEach(LibsourceItem, NetlistLibsource, exp)

NetlistLibsource_to_sexpr(self, indent, newline) ==
    Sp(indent) \o <<"(", "libsource", " ">> \o Tagged("lib", self.lib)
    \o <<" ">> \o Tagged("part", self.part)
    \o <<" ">> \o Tagged("description", self.description) \o <<")">> \o Endline(newline)

NetlistSheetpath == [names |-> Str(<<>>), tstamps |-> Str(<<>>)]

SheetpathItem(object, item) ==
    LET t == Sub0(item)
    IN  IF ~t.ok THEN t
        ELSE IF t.val = W("names") THEN Assign(object, "names", item)
        ELSE IF t.val = W("tstamps") THEN Assign(object, "tstamps", item)
        ELSE Ok(object)

NetlistSheetpath_from_sexpr(exp) ==
    LET c == CheckTag(exp, "sheetpath")
    IN  IF ~c.ok THEN c ELSE ForEach(SheetpathItem, NetlistSheetpath, exp)

NetlistSheetpath_to_sexpr(self, indent, newline) ==
    Sp(indent) \o <<"(", "sheetpath">> \o <<" ">> \o Tagged("names", self.names)
    \o <<" ">> \o Tagged("tstamps", self.tstamps) \o <<")">> \o Endline(newline)

NetlistField == [name |-> Str(<<>>), value |-> None]

FieldItem(object, item) ==
    LET t == Sub0(item)
    IN  IF ~t.ok THEN t
        ELSE IF t.val = W("name") THEN Assign(object, "name", item)
        ELSE Ok([object EXCEPT !.value = item])

NetlistField_from_sexpr(exp) ==
    LET c == CheckTag(exp, "field")
    IN  IF ~c.ok THEN c ELSE ForEach(FieldItem, NetlistField, exp)

(* the value token written whenever the value is not the empty string *)
FieldValueText_Always(value) ==
    IF value # Str(<<>>) THEN <<" ">> \o Q(value) ELSE <<>>

FieldValueText(value) == IF Truthy(value) THEN <<" ">> \o Q(value) ELSE <<>>

NetlistField_to_sexpr(self, indent, newline) ==
    Sp(indent) \o <<"(", "field", " ">> \o Tagged("name", self.name)
    \o FieldValueText(self.value) \o <<")">> \o Endline(newline)

NetlistProperty == [name |-> Str(<<>>), value |-> Str(<<>>)]

PropertyItem(object, item) ==
    LET t == Sub0(item)
    IN  IF ~t.ok THEN t
        ELSE IF t.val = W("name") THEN Assign(object, "name", item)
        ELSE IF t.val = W("value") THEN Assign(object, "value", item)
        ELSE Ok(object)

NetlistProperty_from_sexpr(exp) ==
    LET c == CheckTag(exp, "property")
    IN  IF ~c.ok THEN c ELSE ForEach(PropertyItem, NetlistProperty, exp)

NetlistProperty_to_sexpr(self, indent, newline) ==
    Sp(indent) \o <<"(", "property", " ">> \o Tagged("name", self.name)
    \o <<" ">> \o Tagged("value", self.value) \o <<")">> \o Endline(newline)

(***************************************************************************)
(* NetlistSheet, NetlistDesign                                             *)
(***************************************************************************)
NetlistSheet ==
    [number |-> Str(<<>>), name |-> Str(<<>>), tstamps |-> Str(<<>>),
     title_block |-> NetlistTitleBlock]

SheetItem(object, item) ==
    LET t == Sub0(item)
    IN  IF ~t.ok THEN t
        ELSE IF t.val = W("number") THEN Assign(object, "number", item)
        ELSE IF t.val = W("name") THEN Assign(object, "name", item)
        ELSE IF t.val = W("tstamps") THEN Assign(object, "tstamps", item)
        ELSE IF t.val = W("title_block")
        THEN SetTo(object, "title_block", NetlistTitleBlock_from_sexpr(item))
        ELSE Ok(object)

NetlistSheet_from_sexpr(exp) ==
    LET c == CheckTag(exp, "sheet")
    IN  IF ~c.ok THEN c ELSE ForEach(SheetItem, NetlistSheet, exp)

NetlistSheet_to_sexpr(self, indent, newline) ==
    Sp(indent) \o <<"(", "sheet">> \o <<" ">> \o Tagged("number", self.number)
    \o <<" ">> \o Tagged("name", self.name)
    \o <<" ">> \o Tagged("tstamps", self.tstamps) \o <<"\n">>
    \o NetlistTitleBlock_to_sexpr(self.title_block, indent + 2, TRUE)
    \o Sp(indent) \o <<")">> \o Endline(newline)

NetlistDesign ==
    [source |-> Str(<<>>), date |-> Str(<<>>), tool |-> Str(<<>>), sheets |-> <<>>]

DesignItem(object, item) ==
    LET t == Sub0(item)
    IN  IF ~t.ok THEN t
        ELSE IF t.val = W("source") THEN Assign(object, "source", item)
        ELSE IF t.val = W("date") THEN Assign(object, "date", item)
        ELSE IF t.val = W("tool") THEN Assign(object, "tool", item)
        ELSE IF t.val = W("sheet")
        THEN AppendTo(object, "sheets", NetlistSheet_from_sexpr(item))
        ELSE Ok(object)

NetlistDesign_from_sexpr(exp) ==
    LET c == CheckTag(exp, "design")
    IN  IF ~c.ok THEN c ELSE ForEach(DesignItem, NetlistDesign, exp)

NetlistDesign_to_sexpr(self, indent, newline) ==
    Sp(indent) \o <<"(", "design", "\n">>
    \o Sp(indent + 2) \o Tagged("source", self.source) \o <<"\n">>
    \o Sp(indent + 2) \o Tagged("date", self.date) \o <<"\n">>
    \o Sp(indent + 2) \o Tagged("tool", self.tool) \o <<"\n">>
    \o ConcatAll(LAMBDA sheet : NetlistSheet_to_sexpr(sheet, indent + 2, TRUE), self.sheets)
    \o Sp(indent) \o <<")">> \o Endline(newline)

(***************************************************************************)
(* NetlistComponent                                                        *)
(***************************************************************************)
NetlistComponent ==
    [ref |-> Str(<<>>), value |-> Str(<<>>), tstamps |-> Str(<<>>),
     libsource |-> NetlistLibsource, sheetpath |-> NetlistSheetpath,
     fields |-> <<>>, properties |-> <<>>]

(* for x in item[1:]: object.f.append(Decode(x)) *)
AppendEach(Decode(_), object, f, item) ==
    ForEach(LAMBDA o, x : AppendTo(o, f, Decode(x)), object, item)

(* a component as strict as the root: an unknown sub-list is an error *)
ComponentItem_Strict(object, item) ==
    LET t == Sub0(item)
    IN  IF ~t.ok THEN t
        ELSE IF t.val = W("ref") THEN Assign(object, "ref", item)
        ELSE IF t.val = W("value") THEN Assign(object, "value", item)
        ELSE IF t.val = W("tstamps") THEN Assign(object, "tstamps", item)
        ELSE IF t.val = W("libsource")
        THEN SetTo(object, "libsource", NetlistLibsource_from_sexpr(item))
        ELSE IF t.val = W("sheetpath")
        THEN SetTo(object, "sheetpath", NetlistSheetpath_from_sexpr(item))
        ELSE IF t.val = W("fields")
        THEN AppendEach(NetlistField_from_sexpr, object, "fields", item)
        ELSE IF t.val = W("property")
        THEN AppendTo(object, "properties", NetlistProperty_from_sexpr(item))
        ELSE Raise("UnknownSectionError")

ComponentItem(object, item) ==
    LET t == Sub0(item)
    IN  IF ~t.ok THEN t
        ELSE IF t.val = W("ref") THEN Assign(object, "ref", item)
        ELSE IF t.val = W("value") THEN Assign(object, "value", item)
        ELSE IF t.val = W("tstamps") THEN Assign(object, "tstamps", item)
        ELSE IF t.val = W("libsource")
        THEN SetTo(object, "libsource", NetlistLibsource_from_sexpr(item))
        ELSE IF t.val = W("sheetpath")
        THEN SetTo(object, "sheetpath", NetlistSheetpath_from_sexpr(item))
        ELSE IF t.val = W("fields")
        THEN AppendEach(NetlistField_from_sexpr, object, "fields", item)
        ELSE IF t.val = W("property")
        THEN AppendTo(object, "properties", NetlistProperty_from_sexpr(item))
        ELSE Ok(object)

NetlistComponent_from_sexpr(exp) ==
    LET c == CheckTag(exp, "comp")
    IN  IF ~c.ok THEN c ELSE ForEach(ComponentItem, NetlistComponent, exp)

(* the fields container written for an empty sequence too *)
ComponentFieldsText_Always(fields, indent) ==
    Sp(indent + 2) \o <<"(", "fields", "\n">>
    \o ConcatAll(LAMBDA field : NetlistField_to_sexpr(field, indent + 4, TRUE), fields)
    \o Sp(indent + 1) \o <<")", "\n">>

ComponentFieldsText(fields, indent) ==
    IF Len(fields) > 0
    THEN Sp(indent + 2) \o <<"(", "fields", "\n">>
         \o ConcatAll(LAMBDA field : NetlistField_to_sexpr(field, indent + 4, TRUE), fields)
         \o Sp(indent + 1) \o <<")", "\n">>
    ELSE <<>>

NetlistComponent_to_sexpr(self, indent, newline) ==
    Sp(indent) \o <<"(", "comp">> \o <<" ">> \o Tagged("ref", self.ref) \o <<"\n">>
    \o Sp(indent + 2) \o Tagged("value", self.value) \o <<"\n">>
    \o ComponentFieldsText(self.fields, indent)
    \o NetlistLibsource_to_sexpr(self.libsource, indent + 2, TRUE)
    \o ConcatAll(LAMBDA prop : NetlistProperty_to_sexpr(prop, indent + 2, TRUE), self.properties)
    \o NetlistSheetpath_to_sexpr(self.sheetpath, indent + 2, TRUE)
    \o Sp(indent + 2) \o Tagged("tstamps", self.tstamps) \o <<"\n">>
    \o Sp(indent) \o <<")">> \o Endline(newline)

(***************************************************************************)
(* NetlistLibrary, NetlistLibpartPin, NetlistLibpart                       *)
(***************************************************************************)
NetlistLibrary == [logical |-> Str(<<>>), uri |-> Str(<<>>)]

LibraryItem(object, item) ==
    LET t == Sub0(item)
    IN  IF ~t.ok THEN t
        ELSE IF t.val = W("logical") THEN Assign(object, "logical", item)
        ELSE IF t.val = W("uri") THEN Assign(object, "uri", item)
        ELSE Ok(object)

NetlistLibrary_from_sexpr(exp) ==
    LET c == CheckTag(exp, "library")
    IN  IF ~c.ok THEN c ELSE ForEach(LibraryItem, NetlistLibrary, exp)

NetlistLibrary_to_sexpr(self, indent, newline) ==
    Sp(indent) \o <<"(", "library", " ">> \o Tagged("logical", self.logical) \o <<"\n">>
    \o Sp(indent + 2) \o Tagged("uri", self.uri) \o <<")">> \o Endline(newline)

NetlistLibpartPin ==
    [num |-> Str(<<>>), name |-> Str(<<>>), pintype |-> Str(<<>>), pinfunction |-> None]

LibpartPinItem(object, item) ==
    LET t == Sub0(item)
    IN  IF ~t.ok THEN t
        ELSE IF t.val = W("name") THEN Assign(object, "name", item)
        ELSE IF t.val = W("num") THEN Assign(object, "num", item)
        ELSE IF t.val = W("type") THEN Assign(object, "pintype", item)
        ELSE IF t.val = W("pinfunction") THEN Assign(object, "pinfunction", item)
        ELSE Ok(object)

NetlistLibpartPin_from_sexpr(exp) ==
    LET c == CheckTag(exp, "pin")
    IN  IF ~c.ok THEN c ELSE ForEach(LibpartPinItem, NetlistLibpartPin, exp)

(* (pinfunction "...") preceded by a space when the value is not None *)
PinfunctionText(pinfunction) ==
    IF pinfunction # None THEN <<" ">> \o Tagged("pinfunction", pinfunction) ELSE <<>>

NetlistLibpartPin_to_sexpr(self, indent, newline) ==
    Sp(indent) \o <<"(", "pin">> \o <<" ">> \o Tagged("num", self.num)
    \o <<" ">> \o Tagged("name", self.name)
    \o <<" ">> \o Tagged("type", self.pintype)
    \o PinfunctionText(self.pinfunction)
    \o <<")">> \o Endline(newline)

NetlistLibpart ==
    [lib |-> Str(<<>>), part |-> Str(<<>>), footprints |-> <<>>, fields |-> <<>>,
     pins |-> <<>>]

(* the footprints loop without its assertion *)
FootprintEntry_NoAssert(fp) ==
    LET t == Sub0(fp)
    IN  IF ~t.ok THEN t ELSE Sub1(fp)

(* assert fp[0] == 'fp'; object.footprints.append(fp[1]) *)
FootprintEntry(fp) ==
    LET t == Sub0(fp)
    IN  IF ~t.ok THEN t
        ELSE IF t.val # W("fp") THEN Raise("InvalidFootprintEntryError")
        ELSE Sub1(fp)

LibpartItem(object, item) ==
    LET t == Sub0(item)
    IN  IF ~t.ok THEN t
        ELSE IF t.val = W("lib") THEN Assign(object, "lib", item)
        ELSE IF t.val = W("part") THEN Assign(object, "part", item)
        ELSE IF t.val = W("footprints")
        THEN AppendEach(FootprintEntry, object, "footprints", item)
        ELSE IF t.val = W("fields")
        THEN AppendEach(NetlistField_from_sexpr, object, "fields", item)
        ELSE IF t.val = W("pins")
        THEN AppendEach(NetlistLibpartPin_from_sexpr, object, "pins", item)
        ELSE Ok(object)

NetlistLibpart_from_sexpr(exp) ==
    LET c == CheckTag(exp, "libpart")
    IN  IF ~c.ok THEN c ELSE ForEach(LibpartItem, NetlistLibpart, exp)

LibpartFootprintsText(footprints, indent) ==
    IF Len(footprints) > 0
    THEN Sp(indent + 2) \o <<"(", "footprints", "\n">>
         \o ConcatAll(LAMBDA fp : Sp(indent + 4) \o Tagged("fp", fp) \o <<"\n">>, footprints)
         \o Sp(indent + 2) \o <<")", "\n">>
    ELSE <<>>

NetlistLibpart_to_sexpr(self, indent, newline) ==
    Sp(indent) \o <<"(", "libpart">> \o <<" ">> \o Tagged("lib", self.lib)
    \o <<" ">> \o Tagged("part", self.part) \o <<"\n">>
    \o LibpartFootprintsText(self.footprints, indent)
    \o Sp(indent + 2) \o <<"(", "fields", "\n">>
    \o ConcatAll(LAMBDA field : NetlistField_to_sexpr(field, indent + 4, TRUE), self.fields)
    \o Sp(indent + 2) \o <<")", "\n">>
    \o Sp(indent + 2) \o <<"(", "pins", "\n">>
    \o ConcatAll(LAMBDA pin : NetlistLibpartPin_to_sexpr(pin, indent + 4, TRUE), self.pins)
    \o Sp(indent + 2) \o <<")", "\n">>
    \o Sp(indent) \o <<")">> \o Endline(newline)

(***************************************************************************)
(* NetlistNetNode, NetlistNet                                              *)
(***************************************************************************)
NetlistNetNode ==
    [ref |-> Str(<<>>), pin |-> Str(<<>>), pintype |-> Str(<<>>), pinfunction |-> None]

NetNodeItem(object, item) ==
    LET t == Sub0(item)
    IN  IF ~t.ok THEN t
        ELSE IF t.val = W("pin") THEN Assign(object, "pin", item)
        ELSE IF t.val = W("ref") THEN Assign(object, "ref", item)
        ELSE IF t.val = W("pintype") THEN Assign(object, "pintype", item)
        ELSE IF t.val = W("pinfunction") THEN Assign(object, "pinfunction", item)
        ELSE Ok(object)

NetlistNetNode_from_sexpr(exp) ==
    LET c == CheckTag(exp, "node")
    IN  IF ~c.ok THEN c ELSE ForEach(NetNodeItem, NetlistNetNode, exp)

NetlistNetNode_to_sexpr(self, indent, newline) ==
    Sp(indent) \o <<"(", "node">> \o <<" ">> \o Tagged("ref", self.ref)
    \o <<" ">> \o Tagged("pin", self.pin)
    \o PinfunctionText(self.pinfunction)
    \o (IF self.pintype # None THEN <<" ">> \o Tagged("pintype", self.pintype) ELSE <<>>)
    \o <<")">> \o Endline(newline)

NetlistNet == [code |-> Str(<<>>), name |-> Str(<<>>), nodes |-> <<>>]

NetItem(object, item) ==
    LET t == Sub0(item)
    IN  IF ~t.ok THEN t
        ELSE IF t.val = W("code") THEN Assign(object, "code", item)
        ELSE IF t.val = W("name") THEN Assign(object, "name", item)
        ELSE IF t.val = W("node")
        THEN AppendTo(object, "nodes", NetlistNetNode_from_sexpr(item))
        ELSE Ok(object)

NetlistNet_from_sexpr(exp) ==
    LET c == CheckTag(exp, "net")
    IN  IF ~c.ok THEN c ELSE ForEach(NetItem, NetlistNet, exp)

NetlistNet_to_sexpr(self, indent, newline) ==
    Sp(indent) \o <<"(", "net">> \o <<" ">> \o Tagged("code", self.code)
    \o <<" ">> \o Tagged("name", self.name) \o <<"\n">>
    \o ConcatAll(LAMBDA node : NetlistNetNode_to_sexpr(node, indent + 2, TRUE), self.nodes)
    \o Sp(indent) \o <<")">> \o Endline(newline)

(***************************************************************************)
(* Netlist                                                                 *)
(***************************************************************************)
Netlist ==
    [version |-> Str(<<>>), design |-> NetlistDesign, components |-> <<>>,
     libraries |-> <<>>, libparts |-> <<>>, nets |-> <<>>]

(* the root as permissive as the leaves: an unknown section is skipped *)
NetlistItem_Permissive(object, item) ==
    LET t == Sub0(item)
    IN  IF ~t.ok THEN t
        ELSE IF t.val = W("version") THEN Assign(object, "version", item)
        ELSE IF t.val = W("design")
        THEN SetTo(object, "design", NetlistDesign_from_sexpr(item))
        ELSE IF t.val = W("components")
        THEN AppendEach(NetlistComponent_from_sexpr, object, "components", item)
        ELSE IF t.val = W("libraries")
        THEN AppendEach(NetlistLibrary_from_sexpr, object, "libraries", item)
        ELSE IF t.val = W("libparts")
        THEN AppendEach(NetlistLibpart_from_sexpr, object, "libparts", item)
        ELSE IF t.val = W("nets")
        THEN AppendEach(NetlistNet_from_sexpr, object, "nets", item)
        ELSE Ok(object)

NetlistItem(object, item) ==
    LET t == Sub0(item)
    IN  IF ~t.ok THEN t
        ELSE IF t.val = W("version") THEN Assign(object, "version", item)
        ELSE IF t.val = W("design")
        THEN SetTo(object, "design", NetlistDesign_from_sexpr(item))
        ELSE IF t.val = W("components")
        THEN AppendEach(NetlistComponent_from_sexpr, object, "components", item)
        ELSE IF t.val = W("libraries")
        THEN AppendEach(NetlistLibrary_from_sexpr, object, "libraries", item)
        ELSE IF t.val = W("libparts")
        THEN AppendEach(NetlistLibpart_from_sexpr, object, "libparts", item)
        ELSE IF t.val = W("nets")
        THEN AppendEach(NetlistNet_from_sexpr, object, "nets", item)
        ELSE Raise("UnknownSectionError")

Netlist_from_sexpr(exp) ==
    LET c == CheckTag(exp, "export")
    IN  IF ~c.ok THEN c ELSE ForEach(NetlistItem, Netlist, exp)

(* a blank line, the container's opening line, the items and its closing line *)
SectionText(tag, Enc(_, _, _), items, indent) ==
    IF Len(items) > 0
    THEN <<"\n">> \o <<" ", " ", "(", tag, "\n">>
         \o ConcatAll(LAMBDA item : Enc(item, indent + 4, TRUE), items)
         \o <<" ", " ", ")", "\n">>
    ELSE <<>>

(* every container written, the empty ones too *)
Netlist_to_sexpr_Always(self, indent, newline) ==
    LET Section(tag, Enc(_, _, _), items) ==
            <<"\n">> \o <<" ", " ", "(", tag, "\n">>
            \o ConcatAll(LAMBDA item : Enc(item, indent + 4, TRUE), items)
            \o <<" ", " ", ")", "\n">>
    IN  Sp(indent) \o <<"(", "export", " ">> \o Tagged("version", self.version) \o <<"\n">>
        \o NetlistDesign_to_sexpr(self.design, indent + 2, TRUE)
        \o Section("components", NetlistComponent_to_sexpr, self.components)
        \o Section("libparts", NetlistLibpart_to_sexpr, self.libparts)
        \o Section("libraries", NetlistLibrary_to_sexpr, self.libraries)
        \o Section("nets", NetlistNet_to_sexpr, self.nets)
        \o Sp(indent) \o <<")">> \o Endline(newline)

(* libraries written before libparts *)
Netlist_to_sexpr_Swapped(self, indent, newline) ==
    Sp(indent) \o <<"(", "export", " ">> \o Tagged("version", self.version) \o <<"\n">>
    \o NetlistDesign_to_sexpr(self.design, indent + 2, TRUE)
    \o SectionText("components", NetlistComponent_to_sexpr, self.components, indent)
    \o SectionText("libraries", NetlistLibrary_to_sexpr, self.libraries, indent)
    \o SectionText("libparts", NetlistLibpart_to_sexpr, self.libparts, indent)
    \o SectionText("nets", NetlistNet_to_sexpr, self.nets, indent)
    \o Sp(indent) \o <<")">> \o Endline(newline)

Netlist_to_sexpr(self, indent, newline) ==
    Sp(indent) \o <<"(", "export", " ">> \o Tagged("version", self.version) \o <<"\n">>
    \o NetlistDesign_to_sexpr(self.design, indent + 2, TRUE)
    \o SectionText("components", NetlistComponent_to_sexpr, self.components, indent)
    \o SectionText("libparts", NetlistLibpart_to_sexpr, self.libparts, indent)
    \o SectionText("libraries", NetlistLibrary_to_sexpr, self.libraries, indent)
    \o SectionText("nets", NetlistNet_to_sexpr, self.nets, indent)
    \o Sp(indent) \o <<")">> \o Endline(newline)

(***************************************************************************)
(* kiutils.utils.sexpr.parse_sexp: the list parser.  One pass over the     *)
(* text with a stack of the lists still open.  out holds the elements of   *)
(* the innermost open list, cur the symbols of the atom being read.        *)
(* Bare atoms end at white space or a parenthesis; a quoted atom runs to   *)
(* the next unescaped double quote, and a backslash in it stands for the   *)
(* symbol that follows.                                                    *)
(***************************************************************************)
IsSpace(c) == c = " " \/ c = "\n"

ParseStart == [ok |-> TRUE, mode |-> "normal", cur |-> <<>>, stack |-> <<>>, out |-> <<>>]

OpenList(st) ==
    [st EXCEPT !.mode = "normal", !.cur = <<>>, !.stack = Append(@, st.out), !.out = <<>>]

CloseList(st) ==
    IF st.stack = <<>> THEN Raise("ParseError")
    ELSE [st EXCEPT !.mode = "normal", !.cur = <<>>,
                    !.out = Append(st.stack[Len(st.stack)], List(st.out)),
                    !.stack = SubSeq(@, 1, Len(@) - 1)]

EndAtom(st) == [st EXCEPT !.mode = "normal", !.cur = <<>>, !.out = Append(@, Str(st.cur))]

ParseSym(st, c) ==
    IF ~st.ok THEN st
    ELSE IF st.mode = "normal"
    THEN IF IsSpace(c) THEN st
         ELSE IF c = "(" THEN OpenList(st)
         ELSE IF c = ")" THEN CloseList(st)
         ELSE IF c = "\"" THEN [st EXCEPT !.mode = "quoted", !.cur = <<>>]
         ELSE [st EXCEPT !.mode = "bare", !.cur = <<c>>]
    ELSE IF st.mode = "bare"
    THEN IF IsSpace(c) THEN EndAtom(st)
         ELSE IF c = "(" THEN OpenList(EndAtom(st))
         ELSE IF c = ")" THEN CloseList(EndAtom(st))
         ELSE [st EXCEPT !.cur = Append(@, c)]
    ELSE IF st.mode = "quoted"
    THEN IF c = "\\" THEN [st EXCEPT !.mode = "escape"]
         ELSE IF c = "\"" THEN EndAtom(st)
         ELSE [st EXCEPT !.cur = Append(@, c)]
    ELSE [st EXCEPT !.mode = "quoted", !.cur = Append(@, c)]

parse_sexp(text) ==
    LET end == FoldRange(ParseSym, ParseStart, text, 1, Len(text))
        last == IF end.ok /\ end.mode = "bare" THEN EndAtom(end) ELSE end
    IN  IF ~last.ok THEN last
        ELSE IF last.mode # "normal" \/ last.stack # <<>> \/ last.out = <<>>
        THEN Raise("ParseError")
        ELSE Ok(last.out[1])

(***************************************************************************)
(* The record kinds, each named by the tag its decoder expects.            *)
(***************************************************************************)
Kinds ==
    {"export", "design", "sheet", "title_block", "comp", "libsource", "sheetpath",
     "field", "property", "library", "libpart", "pin", "net", "node"}

from_sexpr(kind, exp) ==
    CASE kind = "export" -> Netlist_from_sexpr(exp)
      [] kind = "design" -> NetlistDesign_from_sexpr(exp)
      [] kind = "sheet" -> NetlistSheet_from_sexpr(exp)
      [] kind = "title_block" -> NetlistTitleBlock_from_sexpr(exp)
      [] kind = "comp" -> NetlistComponent_from_sexpr(exp)
      [] kind = "libsource" -> NetlistLibsource_from_sexpr(exp)
      [] kind = "sheetpath" -> NetlistSheetpath_from_sexpr(exp)
      [] kind = "field" -> NetlistField_from_sexpr(exp)
      [] kind = "property" -> NetlistProperty_from_sexpr(exp)
      [] kind = "library" -> NetlistLibrary_from_sexpr(exp)
      [] kind = "libpart" -> NetlistLibpart_from_sexpr(exp)
      [] kind = "pin" -> NetlistLibpartPin_from_sexpr(exp)
      [] kind = "net" -> NetlistNet_from_sexpr(exp)
      [] kind = "node" -> NetlistNetNode_from_sexpr(exp)

(* to_sexpr() with the default arguments of each class *)
to_sexpr(kind, self) ==
    CASE kind = "export" -> Netlist_to_sexpr(self, 0, TRUE)
      [] kind = "design" -> NetlistDesign_to_sexpr(self, 2, TRUE)
      [] kind = "sheet" -> NetlistSheet_to_sexpr(self, 2, TRUE)
      [] kind = "title_block" -> NetlistTitleBlock_to_sexpr(self, 2, TRUE)
      [] kind = "comp" -> NetlistComponent_to_sexpr(self, 2, TRUE)
      [] kind = "libsource" -> NetlistLibsource_to_sexpr(self, 2, TRUE)
      [] kind = "sheetpath" -> NetlistSheetpath_to_sexpr(self, 2, TRUE)
      [] kind = "field" -> NetlistField_to_sexpr(self, 2, TRUE)
      [] kind = "property" -> NetlistProperty_to_sexpr(self, 2, TRUE)
      [] kind = "library" -> NetlistLibrary_to_sexpr(self, 2, TRUE)
      [] kind = "libpart" -> NetlistLibpart_to_sexpr(self, 2, TRUE)
      [] kind = "pin" -> NetlistLibpartPin_to_sexpr(self, 2, TRUE)
      [] kind = "net" -> NetlistNet_to_sexpr(self, 2, TRUE)
      [] kind = "node" -> NetlistNetNode_to_sexpr(self, 0, TRUE)

(***************************************************************************)
(* Parsed lists handed to the decoders.  For every record kind: the        *)
(* children its list may have (recognised sub-lists, sub-lists the nested  *)
(* decoders reject, an unrecognised (bogus "x")) and an example list.      *)
(***************************************************************************)
Bogus == L2("bogus", W("x"))

Comment(n, v) == L3("comment", L2("number", W(n)), L2("value", W(v)))

Children(kind) ==
    CASE kind = "title_block" ->
           {L2("title", W("Demo")), L1("title"), L2("company", W("ACME")),
            L2("source", W("demo.sch")), Comment("1", "first"), Comment("3", "hello"),
            Comment("9", "last"), Comment("0", "zero"), Comment("-1", "minus"),
            Comment("10", "ten"), L2("comment", L2("value", W("lost"))),
            L2("comment", L2("number", W("2"))), Bogus}
      [] kind = "sheet" ->
           {L2("number", W("1")), L2("name", W("/")), L2("tstamps", W("/")),
            L3("title_block", L2("title", W("Demo")), Comment("3", "hello")),
            L2("title_block", L2("company", W("ACME"))), Bogus}
      [] kind = "design" ->
           {L2("source", W("demo.sch")), L2("date", W("today")), L2("tool", W("Eeschema")),
            L3("sheet", L2("number", W("1")), L2("name", W("/"))),
            L2("sheet", L2("title_block", L2("comment", L2("value", W("lost"))))), Bogus}
      [] kind = "libsource" ->
           {L2("lib", W("Device")), L2("part", W("R")), L2("description", W("Resistor")),
            L1("lib"), Bogus}
      [] kind = "sheetpath" -> {L2("names", W("/")), L2("tstamps", W("/")), Bogus}
      [] kind = "field" ->
           {L2("name", W("X")), W("Y"), Str(<<>>), L2("value", W("Y")), Bogus}
      [] kind = "property" -> {L2("name", W("X")), L2("value", W("Y")), Bogus}
      [] kind = "library" -> {L2("logical", W("Device")), L2("uri", W("/lib")), Bogus}
      [] kind = "pin" ->
           {L2("num", W("1")), L2("name", W("A")), L2("type", W("passive")),
            L2("pinfunction", W("F")), Bogus}
      [] kind = "node" ->
           {L2("ref", W("R1")), L2("pin", W("1")), L2("pintype", W("passive")),
            L2("pinfunction", W("F")), Bogus}
      [] kind = "net" ->
           {L2("code", W("1")), L2("name", W("GND")),
            L3("node", L2("ref", W("R1")), L2("pin", W("1"))),
            L3("node", L2("ref", W("R2")), L2("pin", W("2"))),
            L2("node", L1("ref")), Bogus}
      [] kind = "libpart" ->
           {L2("lib", W("Device")), L2("part", W("R")),
            L3("footprints", L2("fp", W("R_*")), L2("fp", W("C_*"))),
            L2("footprints", Bogus),
            L3("footprints", L2("fp", W("R_*")), Bogus),
            L3("footprints", L2("fp", W("R_*")), W("stray")),
            L2("fields", L3("field", L2("name", W("X")), W("Y"))),
            L2("pins", L3("pin", L2("num", W("1")), L2("name", W("A")))),
            L2("pins", Bogus), Bogus}
      [] kind = "comp" ->
           {L2("ref", W("R1")), L2("value", W("10k")), L2("tstamps", W("T1")),
            L3("libsource", L2("lib", W("Device")), L2("part", W("R"))),
            L2("sheetpath", L2("names", W("/"))),
            L3("fields", L3("field", L2("name", W("X")), W("Y")), L2("field", L2("name", W("Z")))),
            L3("property", L2("name", W("X")), L2("value", W("Y"))),
            L2("fields", Bogus), Bogus}
      [] kind = "export" ->
           {L2("version", W("E")),
            L3("design", L2("source", W("demo.sch")),
               L3("sheet", L2("number", W("1")), L3("title_block", L2("title", W("Demo")), Comment("3", "hello")))),
            L2("components", L3("comp", L2("ref", W("R1")), L2("value", W("10k")))),
            L2("components", Bogus),
            L2("libparts", L3("libpart", L2("lib", W("Device")), L3("footprints", L2("fp", W("R_*")), L2("fp", W("C_*"))))),
            L2("libraries", L3("library", L2("logical", W("Device")), L2("uri", W("/lib")))),
            L2("nets", L3("net", L2("code", W("1")), L3("node", L2("ref", W("R1")), L2("pin", W("1"))))),
            L2("libparts", L3("libpart", L2("footprints", Bogus), L2("pins", Bogus))),
            L2("design", L2("sheet", L2("title_block", L2("comment", L2("value", W("lost")))))),
            L2("nets", W("stray")),
            W("stray"), Bogus}

(* the sequences over S of at most n elements *)
SeqsUpTo(S, n) == UNION {[1..m -> S] : m \in 0..n}

(* the lists (tag child ... child) with at most MaxChildren children *)
ListsOf(kind) == {List(<<W(kind)>> \o cs) : cs \in SeqsUpTo(Children(kind), MaxChildren)}

(* one list of each kind that its own decoder accepts *)
Example(kind) ==
    CASE kind = "title_block" -> L3("title_block", L2("title", W("Demo")), Comment("3", "hello"))
      [] kind = "sheet" -> L3("sheet", L2("number", W("1")), L2("name", W("/")))
      [] kind = "design" -> L3("design", L2("source", W("demo.sch")), L2("tool", W("Eeschema")))
      [] kind = "libsource" -> L3("libsource", L2("lib", W("Device")), L2("part", W("R")))
      [] kind = "sheetpath" -> L3("sheetpath", L2("names", W("/")), L2("tstamps", W("/")))
      [] kind = "field" -> L3("field", L2("name", W("X")), W("Y"))
      [] kind = "property" -> L3("property", L2("name", W("X")), L2("value", W("Y")))
      [] kind = "library" -> L3("library", L2("logical", W("Device")), L2("uri", W("/lib")))
      [] kind = "pin" -> L3("pin", L2("num", W("1")), L2("name", W("A")))
      [] kind = "node" -> L3("node", L2("ref", W("R1")), L2("pin", W("1")))
      [] kind = "net" -> L3("net", L2("code", W("1")), L2("name", W("GND")))
      [] kind = "libpart" -> L3("libpart", L2("lib", W("Device")), L2("part", W("R")))
      [] kind = "comp" -> L3("comp", L2("ref", W("R1")), L2("value", W("10k")))
      [] kind = "export" -> L2("export", L2("version", W("E")))

(* values that are no list, a list without elements, lists whose first
   element is a list or an unknown tag *)
Malformed ==
    {W("sheet"), Str(<<>>), None, List(<<>>), List(<<L1("sheet")>>), Bogus, L1("bogus")}

(* what the decoder of a kind is applied to: the lists of its own kind, the
   example and the bare tag of every kind, and the malformed values *)
Inputs(kind) ==
    ListsOf(kind) \cup {Example(other) : other \in Kinds} \cup {L1(other) : other \in Kinds}
    \cup Malformed

(***************************************************************************)
(* Records built by caller code, handed to the encoders.                   *)
(***************************************************************************)
Tricky == Str(<<"say", "\"", "hi", "\\">>)

NineComments == [i \in 1..NumComments |-> IF i = 3 THEN W("hello") ELSE W(ToString(i))]
OneComment == [i \in 1..NumComments |-> IF i = 3 THEN W("hello") ELSE None]

CleanTitleBlock ==
    [NetlistTitleBlock EXCEPT !.title = W("Demo"), !.source = W("demo.sch"),
                              !.comments = NineComments]
CompanyTitleBlock == [CleanTitleBlock EXCEPT !.company = W("ACME")]

CleanSheet ==
    [number |-> W("1"), name |-> W("/"), tstamps |-> W("/"), title_block |-> CleanTitleBlock]
CompanySheet == [CleanSheet EXCEPT !.number = W("2"), !.title_block = CompanyTitleBlock]

FieldXY == [name |-> W("X"), value |-> W("Y")]
FieldZ == [name |-> W("Z"), value |-> None]
Pin1 == [num |-> W("1"), name |-> W("A"), pintype |-> W("passive"), pinfunction |-> None]
Pin2 == [num |-> W("2"), name |-> W("B"), pintype |-> W("input"), pinfunction |-> W("F")]
Node1 == [ref |-> W("R1"), pin |-> W("1"), pintype |-> W("passive"), pinfunction |-> None]
Node2 == [ref |-> W("R2"), pin |-> W("2"), pintype |-> W("input"), pinfunction |-> W("F")]
Libsource1 == [lib |-> W("Device"), part |-> W("R"), description |-> W("Resistor")]
Sheetpath1 == [names |-> W("/"), tstamps |-> W("/")]
Property1 == [name |-> W("X"), value |-> W("Y")]
Library1 == [logical |-> W("Device"), uri |-> W("/lib")]
Library2 == [logical |-> W("Power"), uri |-> Tricky]

Components ==
    {[ref |-> W(r), value |-> W("10k"), tstamps |-> W("T1"), libsource |-> Libsource1,
      sheetpath |-> Sheetpath1, fields |-> fs, properties |-> <<Property1>>] :
        r \in {"R1", "R2"}, fs \in {<<>>, <<FieldXY, FieldZ>>}}

Libparts ==
    {[lib |-> W("Device"), part |-> W("R"), footprints |-> fps, fields |-> fs, pins |-> ps] :
        fps \in SeqsUpTo({W("R_*"), W("C_*")}, MaxChildren),
        fs \in {<<>>, <<FieldXY>>}, ps \in {<<>>, <<Pin1, Pin2>>}}

Nets ==
    {[code |-> W("1"), name |-> W("GND"), nodes |-> ns] :
        ns \in SeqsUpTo({Node1, Node2}, MaxChildren)}

Designs ==
    {[source |-> W("demo.sch"), date |-> W("today"), tool |-> W("Eeschema"), sheets |-> ss] :
        ss \in SeqsUpTo({CleanSheet, CompanySheet}, MaxChildren)}

CleanDesign == [source |-> W("demo.sch"), date |-> W("today"), tool |-> W("Eeschema"),
                sheets |-> <<CleanSheet>>]
CompanyDesign == [CleanDesign EXCEPT !.sheets = <<CompanySheet>>]
Component1 ==
    [ref |-> W("R1"), value |-> W("10k"), tstamps |-> W("T1"), libsource |-> Libsource1,
     sheetpath |-> Sheetpath1, fields |-> <<FieldXY, FieldZ>>, properties |-> <<Property1>>]
Component2 == [Component1 EXCEPT !.ref = W("R2"), !.fields = <<>>]
Libpart1 ==
    [lib |-> W("Device"), part |-> W("R"), footprints |-> <<W("R_*"), W("C_*")>>,
     fields |-> <<FieldXY>>, pins |-> <<Pin1, Pin2>>]
Net1 == [code |-> W("1"), name |-> W("GND"), nodes |-> <<Node1, Node2>>]

Documents ==
    {[version |-> W("E"), design |-> d, components |-> cs, libraries |-> ls,
      libparts |-> lps, nets |-> ns] :
        d \in {CleanDesign, CompanyDesign},
        cs \in SeqsUpTo({Component1, Component2}, MaxChildren),
        ls \in {<<>>, <<Library1, Library2>>},
        lps \in {<<>>, <<Libpart1>>},
        ns \in {<<>>, <<Net1>>}}

(* the fields of every record kind that hold one string *)
StringFields(kind) ==
    CASE kind = "export" -> {"version"}
      [] kind = "design" -> {"source", "date", "tool"}
      [] kind = "sheet" -> {"number", "name", "tstamps"}
      [] kind = "title_block" -> {"company", "title", "name", "rev", "date", "source"}
      [] kind = "comp" -> {"ref", "value", "tstamps"}
      [] kind = "libsource" -> {"lib", "part", "description"}
      [] kind = "sheetpath" -> {"names", "tstamps"}
      [] kind = "field" -> {"name", "value"}
      [] kind = "property" -> {"name", "value"}
      [] kind = "library" -> {"logical", "uri"}
      [] kind = "libpart" -> {"lib", "part"}
      [] kind = "pin" -> {"num", "name", "pintype", "pinfunction"}
      [] kind = "net" -> {"code", "name"}
      [] kind = "node" -> {"ref", "pin", "pintype", "pinfunction"}

(* one record of every kind, and the same record with one of its string
   fields holding a double quote and a backslash *)
Base(kind) ==
    CASE kind = "export" ->
           [version |-> W("E"), design |-> CleanDesign, components |-> <<>>,
            libraries |-> <<>>, libparts |-> <<>>, nets |-> <<>>]
      [] kind = "design" -> CleanDesign
      [] kind = "sheet" -> CleanSheet
      [] kind = "title_block" -> CleanTitleBlock
      [] kind = "comp" -> Component1
      [] kind = "libsource" -> Libsource1
      [] kind = "sheetpath" -> Sheetpath1
      [] kind = "field" -> FieldXY
      [] kind = "property" -> Property1
      [] kind = "library" -> Library1
      [] kind = "libpart" -> Libpart1
      [] kind = "pin" -> Pin1
      [] kind = "net" -> Net1
      [] kind = "node" -> Node1

TrickyIn(kind) == {[Base(kind) EXCEPT ![f] = Tricky] : f \in StringFields(kind)}

Built(kind) ==
    TrickyIn(kind) \cup
    (CASE kind = "export" -> Documents
      [] kind = "design" -> Designs
      [] kind = "sheet" -> {CleanSheet, CompanySheet}
      [] kind = "title_block" ->
           {[NetlistTitleBlock EXCEPT !.company = c, !.title = t, !.name = n, !.comments = cm] :
               c \in {None, W("ACME")}, t \in {None, W("Demo")}, n \in {None, W("doc")},
               cm \in {NineComments, OneComment}}
      [] kind = "comp" -> Components
      [] kind = "libsource" -> {Libsource1}
      [] kind = "sheetpath" -> {Sheetpath1}
      [] kind = "field" ->
           {[name |-> n, value |-> v] :
               n \in {W("X"), Tricky}, v \in {None, Str(<<>>), W("Y"), Tricky}}
      [] kind = "property" -> {Property1, [name |-> W("X"), value |-> Tricky]}
      [] kind = "library" -> {Library1, Library2}
      [] kind = "libpart" -> Libparts
      [] kind = "pin" ->
           {[Pin1 EXCEPT !.pinfunction = f] : f \in {None, Str(<<>>), W("F"), Tricky}}
      [] kind = "net" -> Nets
      [] kind = "node" ->
           {[Node1 EXCEPT !.pinfunction = f] : f \in {None, Str(<<>>), W("F"), Tricky}})

(***************************************************************************)
(* The converter at work on one record kind.                               *)
(*   kind    the record kind, that is the decoder and encoder in use       *)
(*   exp     the parsed list handed to from_sexpr                          *)
(*   object  the outcome of from_sexpr, or the record the caller built     *)
(*   given   the record the text was encoded from (none before to_sexpr)   *)
(*   text    the text to_sexpr returned                                    *)
(*   pc      "parsed": exp awaits decoding; "built"/"decoded": object is   *)
(*           set; "encoded": text awaits parsing; "unparsable": the parser *)
(*           rejected the text                                             *)
(***************************************************************************)
VARIABLES kind, exp, object, given, text, pc

vars == <<kind, exp, object, given, text, pc>>

Init ==
    /\ kind \in Kinds
    /\ given = <<>>
    /\ text = <<>>
    /\ \/ /\ pc = "parsed"
          /\ exp \in Inputs(kind)
          /\ object = Raise("unset")
       \/ /\ pc = "built"
          /\ exp = None
          /\ object \in {Ok(o) : o \in Built(kind)}

(* R.from_sexpr(exp) *)
FromSexpr ==
    /\ pc = "parsed"
    /\ object' = from_sexpr(kind, exp)
    /\ pc' = "decoded"
    /\ UNCHANGED <<kind, exp, given, text>>

(* object.to_sexpr() *)
ToSexpr ==
    /\ pc \in {"built", "decoded"}
    /\ object.ok
    /\ text' = to_sexpr(kind, object.val)
    /\ given' = <<object.val>>
    /\ pc' = "encoded"
    /\ UNCHANGED <<kind, exp, object>>

(* sexpr.parse_sexp(text) *)
ParseSexp ==
    /\ pc = "encoded"
    /\ LET r == parse_sexp(text)
       IN  IF r.ok THEN exp' = r.val /\ pc' = "parsed"
                   ELSE exp' = None /\ pc' = "unparsable"
    /\ UNCHANGED <<kind, object, given, text>>

Next == FromSexpr \/ ToSexpr \/ ParseSexp

Spec == Init /\ [][Next]_vars

(***************************************************************************)
(* Properties                                                              *)
(***************************************************************************)

(* the children of a list: the elements after its tag *)
ChildrenOf(l) == SubSeq(l.items, 2, Len(l.items))

(* v is a list whose first element is the one-word string tag *)
HasTag(v, tag) == IsList(v) /\ Len(v.items) > 0 /\ v.items[1] = W(tag)

(* a list with a first element that is some string: a tagged list *)
IsTagged(v) == IsList(v) /\ Len(v.items) > 0 /\ IsStr(v.items[1])

(* C1: round-trip identity.  Whenever a Document has been encoded, the text
   parsed and the parsed list decoded, the decoder returns a Document equal
   to the encoded one, field for field and sequence for sequence. *)
C1_RoundTrip ==
    (pc = "decoded" /\ kind = "export" /\ given # <<>>)
        => (object.ok /\ object.val = given[1])

(* C2: tag strictness.  A decoder applied to a non-empty list raises its own
   tag-mismatch error exactly when the first element of the list is not the
   decoder's tag literal. *)
C2_TagStrictness ==
    (pc = "decoded" /\ IsList(exp) /\ Len(exp.items) > 0)
        => ((exp.items[1] # W(kind)) <=> (object = RaiseBy("TagMismatchError", kind)))

(* the Net decoder has rejected a (sheet ...) list *)
C2_Witness ==
    /\ pc = "decoded" /\ kind = "net" /\ exp = Example("sheet")
    /\ object = RaiseBy("TagMismatchError", "net")

(* C3: a decoder applied to a value that is not a list raises its structure
   error, whatever the value is, and returns no record. *)
C3_StructureError ==
    (pc = "decoded" /\ ~IsList(exp)) => (object = RaiseBy("StructureError", kind))

(* the Component decoder has rejected an empty string, whose [0] would have
   raised had the tag been looked at *)
C3_Witness ==
    /\ pc = "decoded" /\ kind = "comp" /\ exp = Str(<<>>)
    /\ object = RaiseBy("StructureError", "comp")

(* the top-level sections Netlist.from_sexpr knows *)
Sections == {"version", "design", "components", "libraries", "libparts", "nets"}

(* the i-th element of exp is a tagged list whose tag is not a known section *)
UnknownSectionAt(e, i) ==
    IsTagged(e.items[i]) /\ e.items[i].items[1] \notin {W(t) : t \in Sections}

HasUnknownSection(e) ==
    HasTag(e, "export") /\ \E i \in 2..Len(e.items) : UnknownSectionAt(e, i)

FirstUnknownSection(e) ==
    CHOOSE i \in 2..Len(e.items) :
        UnknownSectionAt(e, i) /\ \A j \in 2..(i - 1) : ~UnknownSectionAt(e, j)

(* C4 as stated: an export list with an unrecognised top-level section
   always fails with the unknown-section error *)
C4_Original ==
    (pc = "decoded" /\ kind = "export" /\ HasUnknownSection(exp))
        => (object = Raise("UnknownSectionError"))

(* C4: strict root.  Decoding an export list that has a top-level child with
   an unrecognised tag, at whatever position, fails; the error is the
   unknown-section error whenever the children before the first such child
   decode without error. *)
C4_StrictRoot ==
    (pc = "decoded" /\ kind = "export" /\ HasUnknownSection(exp))
        => /\ ~object.ok
           /\ LET i == FirstUnknownSection(exp)
              IN  Netlist_from_sexpr(List(SubSeq(exp.items, 1, i - 1))).ok
                      => (object = Raise("UnknownSectionError"))

(* (export (version "E") (bogus "x")) has been rejected: the unknown section
   comes last, after a section that decoded *)
C4_Witness ==
    /\ pc = "decoded" /\ kind = "export"
    /\ exp = L3("export", L2("version", W("E")), Bogus)
    /\ object = Raise("UnknownSectionError")

(* the list l with x inserted so that it becomes element p (1-based) *)
InsertAt(l, p, x) ==
    List(SubSeq(l.items, 1, p - 1) \o <<x>> \o SubSeq(l.items, p, Len(l.items)))

(* the decoders that skip what they do not know *)
Permissive == Kinds \ {"export", "field"}

Unknowns == {Bogus, L1("other"), L3("bogus", W("x"), L1("y"))}

(* C5: permissive leaves.  For every decoder other than the root and Field,
   a list that decodes still decodes, to the same record, when a sub-list
   with an unrecognised tag is inserted at any position among its children. *)
C5_PermissiveLeaves ==
    (pc = "decoded" /\ kind \in Permissive /\ object.ok)
        => \A p \in 2..(Len(exp.items) + 1) : \A u \in Unknowns :
               from_sexpr(kind, InsertAt(exp, p, u)) = object

(* a comp list holding (bogus "x") before its ref has been decoded *)
C5_Witness ==
    /\ pc = "decoded" /\ kind = "comp"
    /\ exp = L3("comp", Bogus, L2("ref", W("R1")))
    /\ object = Ok([NetlistComponent EXCEPT !.ref = W("R1")])

(* c is (comment (number "n") (value v)) for a string v *)
IsComment(c, n) ==
    /\ HasTag(c, "comment") /\ Len(c.items) = 3
    /\ c.items[2] = L2("number", W(ToString(n)))
    /\ HasTag(c.items[3], "value") /\ Len(c.items[3].items) = 2
    /\ IsStr(c.items[3].items[2])

(* c is (tag "payload") or (tag) for one of the title block's scalar tags *)
IsScalarItem(c) ==
    /\ \E t \in {"title", "company", "rev", "date", "source"} : HasTag(c, t)
    /\ \/ Len(c.items) = 2 /\ IsStr(c.items[2])
       \/ Len(c.items) = 1 /\ ~HasTag(c, "source")

(* a title_block list made of scalar items and comments numbered 1 to 9 *)
PlainTitleBlock(e) ==
    /\ HasTag(e, "title_block")
    /\ \A i \in 2..Len(e.items) :
           IsScalarItem(e.items[i]) \/ \E n \in 1..NumComments : IsComment(e.items[i], n)

(* C6: comment indexing.  Decoding a title block stores the value of every
   (comment (number "n") (value v)), n in 1..9, at comments[n-1] and leaves
   the positions no comment names as they were; and a comment of an encoded
   TitleBlock is found at the same position after decoding the text. *)
C6_CommentIndexing ==
    /\ (/\ pc = "decoded" /\ kind = "title_block" /\ PlainTitleBlock(exp)
        /\ \E i \in 2..Len(exp.items) :
               \E n \in 1..NumComments : IsComment(exp.items[i], n))
           => /\ object.ok
              /\ \A n \in 1..NumComments :
                     LET at == {i \in 2..Len(exp.items) : IsComment(exp.items[i], n)}
                     IN  IF at = {} THEN object.val.comments[n] = None
                         ELSE LET i == CHOOSE i \in at : \A j \in at : j <= i
                              IN  object.val.comments[n] = exp.items[i].items[3].items[2]
    /\ (/\ pc = "decoded" /\ kind = "title_block" /\ given # <<>>
        /\ \E n \in 1..NumComments : IsStr(given[1].comments[n]))
           => /\ object.ok
              /\ \A n \in 1..NumComments :
                     IsStr(given[1].comments[n])
                         => object.val.comments[n] = given[1].comments[n]

(* c is a comment sub-list none of whose sub-lists is tagged number *)
LacksNumber(c) ==
    /\ HasTag(c, "comment")
    /\ \A i \in 2..Len(c.items) : IsTagged(c.items[i]) /\ ~HasTag(c.items[i], "number")

(* a title_block list whose comments either lack the number sub-tag or are
   (comment (number "n") (value v)) with a numeral n from 0 to 9, and whose
   other items are scalar items other than company *)
C7_Case(e) ==
    /\ HasTag(e, "title_block")
    /\ \A i \in 2..Len(e.items) :
           \/ IsScalarItem(e.items[i]) /\ ~HasTag(e.items[i], "company")
           \/ LacksNumber(e.items[i])
           \/ \E n \in 0..NumComments : IsComment(e.items[i], n)

(* C7: decoding a title block fails with the missing-comment-index error
   exactly when some comment sub-list has no number sub-tag. *)
C7_MissingIndex ==
    (pc = "decoded" /\ kind = "title_block" /\ C7_Case(exp))
        => ((object = Raise("MissingCommentIndexError"))
                <=> \E i \in 2..Len(exp.items) : LacksNumber(exp.items[i]))

(* child j of the footprints sub-list at element i is a tagged list whose
   tag is not fp *)
BadFootprintAt(e, i, j) ==
    /\ HasTag(e.items[i], "footprints")
    /\ IsTagged(e.items[i].items[j]) /\ ~HasTag(e.items[i].items[j], "fp")

BadFootprints(e) ==
    UNION {{<<i, j>> : j \in {j \in 2..Len(e.items[i].items) : BadFootprintAt(e, i, j)}} :
              i \in {i \in 2..Len(e.items) : IsList(e.items[i])}}

(* the first such child in scan order *)
FirstBadFootprint(e) ==
    CHOOSE ij \in BadFootprints(e) :
        \A o \in BadFootprints(e) : ij[1] < o[1] \/ (ij[1] = o[1] /\ ij[2] <= o[2])

(* what precedes it: the elements before the footprints sub-list, and the
   sub-list cut off before the child *)
BeforeFootprint(e, ij) ==
    List(SubSeq(e.items, 1, ij[1] - 1)
         \o <<List(SubSeq(e.items[ij[1]].items, 1, ij[2] - 1))>>)

(* every child of every footprints sub-list is (fp payload) *)
OnlyFp(e) ==
    \A i \in 2..Len(e.items) :
        HasTag(e.items[i], "footprints")
            => \A j \in 2..Len(e.items[i].items) :
                   HasTag(e.items[i].items[j], "fp") /\ Len(e.items[i].items[j].items) > 1

(* the payloads of the fp children, in input order *)
FpPayloads(e) ==
    ConcatAll(LAMBDA item : IF HasTag(item, "footprints")
                            THEN [j \in 1..(Len(item.items) - 1) |-> item.items[j + 1].items[2]]
                            ELSE <<>>,
              ChildrenOf(e))

(* C8 as stated: a libpart whose footprints sub-list has a child not tagged
   fp always fails with the invalid-footprint-entry error *)
C8_Original ==
    (pc = "decoded" /\ kind = "libpart" /\ HasTag(exp, "libpart"))
        => /\ BadFootprints(exp) # {} => object = Raise("InvalidFootprintEntryError")
           /\ (OnlyFp(exp) /\ object.ok) => object.val.footprints = FpPayloads(exp)

(* C8: footprint strictness.  Decoding a libpart whose footprints sub-list
   has a child tagged otherwise than fp fails and returns no LibraryPart;
   the error is the invalid-footprint-entry error whenever everything
   before that child decodes without error.  When every child is an fp
   entry, a decoded LibraryPart holds their strings in input order. *)
C8_FootprintStrictness ==
    (pc = "decoded" /\ kind = "libpart" /\ HasTag(exp, "libpart"))
        => /\ BadFootprints(exp) # {}
                  => /\ ~object.ok
                     /\ NetlistLibpart_from_sexpr(BeforeFootprint(exp, FirstBadFootprint(exp))).ok
                            => object = Raise("InvalidFootprintEntryError")
           /\ (OnlyFp(exp) /\ object.ok) => object.val.footprints = FpPayloads(exp)

(* (footprints (fp "R_*") (bogus "x")) has been rejected after its first
   entry was accepted *)
C8_Witness ==
    /\ pc = "decoded" /\ kind = "libpart"
    /\ exp = L2("libpart", L3("footprints", L2("fp", W("R_*")), Bogus))
    /\ object = Raise("InvalidFootprintEntryError")

(* a str without double quotes and backslashes: its text is written as it is *)
Plain(v) == IsStr(v) /\ \A i \in 1..Len(v.s) : v.s[i] \notin {"\"", "\\"}

(* C9: optional-field rendering of Field.  A Field with name X and no value
   is written (field (name "X")) with nothing after the name; a Field with
   name X and value Y is written (field (name "X") "Y"). *)
C9_FieldRendering ==
    (pc = "encoded" /\ kind = "field" /\ Plain(given[1].name))
        => LET head == <<" ", " ", "(", "field", " ", "(", "name", " ", "\"">>
                           \o given[1].name.s \o <<"\"", ")">>
               value == given[1].value
           IN  /\ value = None => text = head \o <<")", "\n">>
               /\ (Plain(value) /\ value.s # <<>>)
                      => text = head \o <<" ", "\"">> \o value.s \o <<"\"", ")", "\n">>

(* Field(name="X") has been written without a value token *)
C9_Witness ==
    /\ pc = "encoded" /\ kind = "field"
    /\ given = <<[name |-> W("X"), value |-> None]>>
    /\ text = <<" ", " ", "(", "field", " ", "(", "name", " ", "\"", "X", "\"", ")", ")", "\n">>

(* the parsed text has a sub-list tagged pinfunction *)
HasPinfunction(l) == \E i \in 2..Len(l.items) : HasTag(l.items[i], "pinfunction")

(* C10: Field's value token is in the encoded text for every value that is a
   string, the empty string included, and only then; the (pinfunction ...)
   tag of Pin and Node is in the text for every pinfunction that is not
   None, and only then. *)
C10_OptionalValues ==
    (pc = "encoded" /\ kind \in {"field", "pin", "node"})
        => LET l == parse_sexp(text).val
           IN  IF kind = "field"
               THEN /\ IsStr(given[1].value) => Len(l.items) = 3 /\ l.items[3] = given[1].value
                    /\ given[1].value = None => Len(l.items) = 2
               ELSE HasPinfunction(l) <=> given[1].pinfunction # None

(* the greatest element of a non-empty set of positions *)
Last(S) == CHOOSE i \in S : \A j \in S : j <= i

(* the positions of the (name payload ...) elements of a field list, and of
   the other elements *)
NameElements(e) == {i \in 2..Len(e.items) : HasTag(e.items[i], "name")}
OtherElements(e) == (2..Len(e.items)) \ NameElements(e)

(* C11: Field decoding rule.  Decoding a field list whose name elements carry
   a payload succeeds whatever its other elements are; the name is the
   payload of the last name element (the default "" when there is none) and
   the value is the last other element, stored whole (None when there is
   none). *)
C11_FieldDecoding ==
    (/\ pc = "decoded" /\ kind = "field" /\ HasTag(exp, "field")
     /\ \A i \in NameElements(exp) : Len(exp.items[i].items) > 1)
        => /\ object.ok
           /\ object.val.name =
                  IF NameElements(exp) = {} THEN Str(<<>>)
                  ELSE exp.items[Last(NameElements(exp))].items[2]
           /\ object.val.value =
                  IF OtherElements(exp) = {} THEN None
                  ELSE exp.items[Last(OtherElements(exp))]

(* the positions in a text where a list tagged tag opens *)
OpenersAt(t, tag) == {i \in 1..(Len(t) - 1) : t[i] = "(" /\ t[i + 1] = tag}

(* the place of every top-level tag in the canonical order *)
SectionRank ==
    [version |-> 1, design |-> 2, components |-> 3, libparts |-> 4, libraries |-> 5, nets |-> 6]

(* some child of the list e tagged a stands before some child tagged b *)
Precedes(e, a, b) ==
    \E i, j \in 2..Len(e.items) : i < j /\ HasTag(e.items[i], a) /\ HasTag(e.items[j], b)

(* C12: fixed output section order.  The text of every Document starts with
   the version header, has the design next, and every section that is
   written opens once, after the design and after every written section
   that comes earlier in the order components, libparts, libraries, nets. *)
C12_SectionOrder ==
    (pc = "encoded" /\ kind = "export")
        => /\ SubSeq(text, 1, 5) = <<"(", "export", " ", "(", "version">>
           /\ Cardinality(OpenersAt(text, "design")) = 1
           /\ \A a \in DOMAIN SectionRank : Cardinality(OpenersAt(text, a)) <= 1
           /\ \A a, b \in DOMAIN SectionRank :
                  SectionRank[a] < SectionRank[b]
                      => \A i \in OpenersAt(text, a) : \A j \in OpenersAt(text, b) : i < j

(* a decoded input with its nets before its components has been encoded,
   both sections written *)
C12_Witness ==
    /\ pc = "encoded" /\ kind = "export" /\ IsList(exp)
    /\ Precedes(exp, "nets", "components")
    /\ OpenersAt(text, "nets") # {} /\ OpenersAt(text, "components") # {}

SectionTags == {"components", "libparts", "libraries", "nets"}

(* C13: empty sections are omitted.  In the text of every Document the
   container of each of the four sections opens if and only if the
   Document's sequence of that name is not empty, and every container that
   opens stands at the start of a line that exactly one blank line
   precedes. *)
C13_EmptySections ==
    (pc = "encoded" /\ kind = "export")
        => \A s \in SectionTags :
               /\ OpenersAt(text, s) # {} <=> given[1][s] # <<>>
               /\ \A i \in OpenersAt(text, s) :
                      /\ i > 5
                      /\ SubSeq(text, i - 4, i - 1) = <<"\n", "\n", " ", " ">>
                      /\ text[i - 5] # "\n"

(* a Document with components and without nets has been encoded *)
C13_Witness ==
    /\ pc = "encoded" /\ kind = "export"
    /\ given[1].components # <<>> /\ given[1].nets = <<>>
    /\ OpenersAt(text, "components") # {} /\ OpenersAt(text, "nets") = {}

(* Tricky between double quotes, its double quote and its backslash escaped *)
TrickyQuoted == <<"\"", "say", "\\", "\"", "hi", "\\", "\\", "\"">>

(* the text t holds the sequence q *)
Holds(t, q) == \E i \in 1..(Len(t) - Len(q) + 1) : SubSeq(t, i, i + Len(q) - 1) = q

(* C14: escaping round-trip.  A record one of whose string fields holds a
   double quote and a backslash is encoded with that value between double
   quotes, both characters escaped; and decoding the parsed text returns a
   record holding the identical string in that field. *)
C14_EscapingRoundTrip ==
    /\ (pc = "encoded" /\ given[1] \in TrickyIn(kind)) => Holds(text, TrickyQuoted)
    /\ (pc = "decoded" /\ given # <<>> /\ given[1] \in TrickyIn(kind))
           => /\ object.ok
              /\ \A f \in StringFields(kind) :
                     given[1][f] = Tricky => object.val[f] = Tricky

(* a string of the model between double quotes, as the claims describe it *)
Quoted(v) == IF v = Tricky THEN TrickyQuoted ELSE <<"\"">> \o v.s \o <<"\"">>

(* the positions in the text of a title block where one of its scalar tags
   opens: every tag but the block's own, source, and those of the comments *)
ScalarOpeners(t) ==
    {i \in 1..(Len(t) - 1) :
        t[i] = "(" /\ t[i + 1] \notin {"title_block", "source", "comment", "number", "value"}}

(* every child of e tagged f is the empty tag (f), and there is one *)
OnlyEmptyTag(e, f) ==
    /\ \E i \in 2..Len(e.items) : e.items[i] = L1(f)
    /\ \A i \in 2..Len(e.items) : HasTag(e.items[i], f) => e.items[i] = L1(f)

(* C15: TitleBlock empty-tag rendering.  The text of every TitleBlock has a
   tag for each of company, title, document name, rev and date, five in
   all: (tag) when the field is None and (tag "value") otherwise; and a
   title block decoded from a list where a field has the empty tag only
   holds None in that field. *)
C15_EmptyTags ==
    /\ (pc = "encoded" /\ kind = "title_block")
           => /\ \A f \in {"company", "title", "rev", "date"} :
                     IF given[1][f] = None
                     THEN Holds(text, <<"(", f, ")">>)
                     ELSE Holds(text, <<"(", f, " ">> \o Quoted(given[1][f]) \o <<")">>)
              /\ Cardinality(ScalarOpeners(text)) = 5
    /\ (pc = "decoded" /\ kind = "title_block" /\ object.ok /\ IsList(exp))
           => \A f \in {"company", "title", "rev", "date"} :
                  OnlyEmptyTag(exp, f) => object.val[f] = None

(* C16: container emission.  The text of a LibraryPart has one fields
   container and one pins container whatever the sequences hold, an empty
   container for an empty sequence, and a footprints container exactly when
   footprints is not empty; the text of a Component has a fields container
   exactly when fields is not empty. *)
C16_ContainerEmission ==
    /\ (pc = "encoded" /\ kind = "libpart")
           => /\ OpenersAt(text, "footprints") # {} <=> given[1].footprints # <<>>
              /\ Cardinality(OpenersAt(text, "fields")) = 1
              /\ Cardinality(OpenersAt(text, "pins")) = 1
              /\ given[1].fields = <<>>
                     => Holds(text, <<"(", "fields", "\n", " ", " ", " ", " ", ")", "\n">>)
              /\ given[1].pins = <<>>
                     => Holds(text, <<"(", "pins", "\n", " ", " ", " ", " ", ")", "\n">>)
    /\ (pc = "encoded" /\ kind = "comp")
           => (OpenersAt(text, "fields") # {} <=> given[1].fields # <<>>)

(* a LibraryPart without footprints, fields and pins has been encoded with
   its two empty containers and no footprints container *)
C16_Witness ==
    /\ pc = "encoded" /\ kind = "libpart"
    /\ given[1].footprints = <<>> /\ given[1].fields = <<>> /\ given[1].pins = <<>>
    /\ OpenersAt(text, "fields") # {} /\ OpenersAt(text, "pins") # {}
    /\ OpenersAt(text, "footprints") = {}

(* The elements of a document or library part list in scan order: <<i, 1>>
   is the child e.items[i] itself, <<i, j>> the j-th element of a child
   that is a container.  ContainerOf gives the decoder applied to the
   elements of a container ("fp" for the entries of footprints). *)
ContainerOf(k, item) ==
    IF k = "export"
    THEN IF HasTag(item, "components") THEN "comp"
         ELSE IF HasTag(item, "libraries") THEN "library"
         ELSE IF HasTag(item, "libparts") THEN "libpart"
         ELSE IF HasTag(item, "nets") THEN "net"
         ELSE "none"
    ELSE IF HasTag(item, "footprints") THEN "fp"
         ELSE IF HasTag(item, "fields") THEN "field"
         ELSE IF HasTag(item, "pins") THEN "pin"
         ELSE "none"

ScanPositions(k, e) ==
    {<<i, 1>> : i \in 2..Len(e.items)}
    \cup UNION {{<<i, j>> : j \in 2..Len(e.items[i].items)} :
                   i \in {n \in 2..Len(e.items) : ContainerOf(k, e.items[n]) # "none"}}

(* what decoding the element at p does when it is decoded on its own *)
OutcomeAt(k, e, p) ==
    LET item == e.items[p[1]]
        c == ContainerOf(k, item)
    IN  IF p[2] = 1
        THEN IF ~Sub0(item).ok THEN Sub0(item)
             ELSE IF c # "none" THEN Ok(TRUE)
             ELSE IF k = "export"
             THEN IF HasTag(item, "version") THEN Sub1(item)
                  ELSE IF HasTag(item, "design") THEN from_sexpr("design", item)
                  ELSE Raise("UnknownSectionError")
             ELSE IF HasTag(item, "lib") \/ HasTag(item, "part") THEN Sub1(item)
             ELSE Ok(TRUE)
        ELSE LET x == item.items[p[2]]
             IN  IF c # "fp" THEN from_sexpr(c, x)
                 ELSE IF ~Sub0(x).ok THEN Sub0(x)
                 ELSE IF ~HasTag(x, "fp") THEN Raise("InvalidFootprintEntryError")
                 ELSE Sub1(x)

FailingAt(k, e) == {p \in ScanPositions(k, e) : ~OutcomeAt(k, e, p).ok}

ScanBefore(p, q) == p[1] < q[1] \/ (p[1] = q[1] /\ p[2] <= q[2])

FirstFailing(k, e) ==
    CHOOSE p \in FailingAt(k, e) : \A q \in FailingAt(k, e) : ScanBefore(p, q)

(* C17: decode errors are terminal and ordered.  When decoding some element
   of a document list fails, the decoder applied to the document returns no
   Document; it raises the error of the first failing element in scan
   order.  The same holds of a library part list and its elements. *)
C17_TerminalOrdered ==
    (/\ pc = "decoded" /\ kind \in {"export", "libpart"} /\ HasTag(exp, kind)
     /\ FailingAt(kind, exp) # {})
        => /\ ~object.ok
           /\ object = OutcomeAt(kind, exp, FirstFailing(kind, exp))

(* a document with two failing elements of different errors has been
   decoded, and the error is that of the first *)
C17_Witness ==
    /\ pc = "decoded" /\ kind = "export" /\ HasTag(exp, "export")
    /\ \E p, q \in FailingAt("export", exp) :
           /\ p # q /\ ScanBefore(p, q)
           /\ OutcomeAt("export", exp, p) # OutcomeAt("export", exp, q)
           /\ object = OutcomeAt("export", exp, p)

(* the positions of the children of e that are (f payload) *)
PayloadsOf(e, f) ==
    {i \in 2..Len(e.items) : HasTag(e.items[i], f) /\ Len(e.items[i].items) = 2}

(* C18: TitleBlock scalar extraction.  Decoding a title_block list made of
   scalar items and well-numbered comments succeeds, and each of title,
   company, rev, date and source holds the payload of the last sub-list of
   its tag, unchanged, or its default when no sub-list of its tag has a
   payload. *)
C18_ScalarExtraction ==
    (pc = "decoded" /\ kind = "title_block" /\ PlainTitleBlock(exp))
        => /\ object.ok
           /\ \A f \in {"title", "company", "rev", "date", "source"} :
                  object.val[f] =
                      IF PayloadsOf(exp, f) = {} THEN NetlistTitleBlock[f]
                      ELSE exp.items[Last(PayloadsOf(exp, f))].items[2]

(* c is a comment sub-list with a number sub-tag outside 1..9 *)
OutOfRange(c) ==
    /\ HasTag(c, "comment")
    /\ \E j \in 2..Len(c.items) :
           c.items[j] \in {L2("number", W(n)) : n \in {"-1", "0", "10"}}

(* C19: comment index range.  Every TitleBlock the decoder returns has
   exactly 9 comments, and the decoder returns none for a title_block list
   that has a comment whose number is outside 1..9. *)
C19_CommentRange ==
    (pc = "decoded" /\ kind = "title_block" /\ HasTag(exp, "title_block"))
        => /\ object.ok => Len(object.val.comments) = NumComments
           /\ (\E i \in 2..Len(exp.items) : OutOfRange(exp.items[i])) => ~object.ok

(* the comment sub-list c carries number n; it carries the value v *)
CarriesNumber(c, n) ==
    HasTag(c, "comment") /\ \E j \in 2..Len(c.items) : c.items[j] = L2("number", W(ToString(n)))

CarriesValue(c, v) ==
    HasTag(c, "comment") /\ \E j \in 2..Len(c.items) : c.items[j] = L2("value", v)

(* C20: comment value locality.  In a TitleBlock decoded from a title_block
   list whose comment numbers are all within 1..9, whatever is stored at
   comments[n-1] is the value of a comment sub-list that carries number n
   itself. *)
C20_ValueLocality ==
    (/\ pc = "decoded" /\ kind = "title_block" /\ HasTag(exp, "title_block") /\ object.ok
     /\ \A i \in 2..Len(exp.items) : ~OutOfRange(exp.items[i]))
        => \A n \in 1..NumComments :
               object.val.comments[n] # None
                   => \E i \in 2..Len(exp.items) :
                          /\ CarriesNumber(exp.items[i], n)
                          /\ CarriesValue(exp.items[i], object.val.comments[n])

(* the record that has been encoded is the one the decoder returned for exp *)
DecodedFromExp == IsList(exp) /\ given # <<>> /\ from_sexpr(kind, exp) = Ok(given[1])

(* to_sexpr of what from_sexpr returns for the parsed text t *)
Reencoded(k, t) ==
    LET r == parse_sexp(t)
    IN  IF ~r.ok THEN r
        ELSE LET d == from_sexpr(k, r.val)
             IN  IF d.ok THEN Ok(to_sexpr(k, d.val)) ELSE d

(* C21: the canonical form is a fixed point.  When the Document the decoder
   returned for an input list has been encoded, its text parses, the parsed
   list decodes, and encoding the Document so decoded gives the same text
   again. *)
C21_FixedPoint ==
    (pc = "encoded" /\ kind = "export" /\ DecodedFromExp)
        => Reencoded(kind, text) = Ok(text)

(* a Document decoded from an input with its nets before its components has
   been encoded, and its text is its own re-encoding *)
C21_Witness ==
    /\ pc = "encoded" /\ kind = "export" /\ DecodedFromExp
    /\ Precedes(exp, "nets", "components")
    /\ given[1].nets # <<>> /\ given[1].components # <<>>
    /\ Reencoded(kind, text) = Ok(text)

====
